---- MODULE Spec2Model ----
\* A model of current_screenshot.py: main() parses the command line, then
\* walks the URLs of a CSV file (screenshot_csv) or of the current_url table
\* (screenshot_db); for each URL take_screenshot probes it
\* (check_site_availability), dispatches one screenshot back-end and returns a
\* status that is written to the index CSV and/or the current_index table.
EXTENDS Integers, Sequences, FiniteSets, TLC

VARIABLES
    args,           \* the argparse namespace: which options were given, the
                    \* method, whether int(timeout_duration) is defined
    pc,             \* position of the program
    mode,           \* "none", "csv" (screenshot_csv) or "db" (screenshot_db)
    input,          \* lines of the input CSV (header first) or rows of current_url
    line,           \* how many elements the for loop has taken from input
    count,          \* the loops' count variable
    return_code,    \* take_screenshot's return_code (availability code)
    succeed,        \* the value take_screenshot returned (a Python value)
    resp,           \* what urllib.request.urlopen did for the current URL
    outcome,        \* what the screenshot back-end did for the current URL
    csv_out,        \* rows the index CSV file holds
    csv_buf,        \* rows written to the index CSV and still in its buffer
    current_index,  \* rows of the current_index table
    browsers,       \* loop positions whose launched browser was never closed
    calls           \* external calls made since the loop last took a record

vars == <<args, pc, mode, input, line, count, return_code, succeed, resp,
          outcome, csv_out, csv_buf, current_index, browsers, calls>>

----------------------------------------------------------------------------
\* Bounds

MaxRecords == 2     \* URL records in the input
MaxMethod == 3      \* --method ranges over 0..MaxMethod
MaxPrior == 1       \* rows current_index holds before the run

----------------------------------------------------------------------------
\* Python values: an int or a str

PyInt(n) == [t |-> "int", v |-> n]
PyStr(s) == [t |-> "str", v |-> s]
Nil == [t |-> "none", v |-> ""]

\* Python's str(): the decimal text of an int, a str unchanged.
str(x) == IF x.t = "int" THEN PyStr(ToString(x.v)) ELSE x

\* The integers a status can be; int() of a decimal text is looked up here.
StatusCodes == (-8 .. -1) \cup {200, 302, 404, 500}
ParseInt(s) == CHOOSE n \in StatusCodes \cup (0 .. 9) : ToString(n) = s
Num(x) == IF x.t = "int" THEN x.v ELSE ParseInt(x.v)

----------------------------------------------------------------------------
\* Exceptions and try/except

BaseClasses(exc) ==
    CASE exc = "HTTPError"    -> {"HTTPError", "URLError", "OSError", "Exception", "BaseException"}
      [] exc = "URLError"     -> {"URLError", "OSError", "Exception", "BaseException"}
      [] exc = "ValueError"   -> {"ValueError", "Exception", "BaseException"}
      [] exc = "TimeoutError" -> {"TimeoutError", "Exception", "BaseException"}
      [] exc = "NetworkError" -> {"NetworkError", "PyppeteerError", "Exception", "BaseException"}
      [] exc = "PageError"    -> {"PageError", "PyppeteerError", "Exception", "BaseException"}
      [] exc = "BrowserError" -> {"BrowserError", "PyppeteerError", "Exception", "BaseException"}
      [] OTHER                -> {}

\* The first except clause of `handlers` that catches exc, or "uncaught".
FirstHandler(handlers, exc) ==
    LET hits == {h \in DOMAIN handlers : handlers[h] \in BaseClasses(exc)}
    IN  IF hits = {} THEN "uncaught"
        ELSE handlers[CHOOSE h \in hits : \A g \in hits : h <= g]

\* What a call gives back: a returned value, or an exception that propagates.
Return(x) == [raised |-> FALSE, val |-> x]
Propagate == [raised |-> TRUE, val |-> Nil]

----------------------------------------------------------------------------
\* check_site_availability

\* HTTP statuses urlopen raises HTTPError for (302: a redirect loop).
HTTPErrorCodes == {302, 404, 500}
Elsewhere == "http://elsewhere/"

\* What urlopen(url) can do: raise, or return a response with a final URL.
Responses(url) ==
    {[exc |-> "HTTPError", code |-> c, geturl |-> ""] : c \in HTTPErrorCodes}
    \cup {[exc |-> e, code |-> 0, geturl |-> ""] : e \in {"URLError", "ValueError"}}
    \cup {[exc |-> "none", code |-> 0, geturl |-> u] : u \in {url, Elsewhere}}

\* Variant: URLError is tested before its subclass HTTPError.
availability_handlers_url_first == <<"URLError", "HTTPError", "Exception">>

\* Variant: the catch-all clause is missing.
availability_handlers_no_catch_all == <<"HTTPError", "URLError">>

\* The except clauses of check_site_availability, in order.
availability_handlers == <<"HTTPError", "URLError", "Exception">>

check_site_availability(url, r) ==
    IF r.exc # "none"
    THEN LET h == FirstHandler(availability_handlers, r.exc)
         IN  IF h = "HTTPError" THEN Return(r.code)
             ELSE IF h = "URLError" THEN Return(-7)
             ELSE IF h = "Exception" THEN Return(-8)
             ELSE Propagate
    ELSE IF r.geturl # url THEN Return(302) ELSE Return(200)

----------------------------------------------------------------------------
\* take_screenshot

\* Variant: every HTTP status counts as available, only the negative codes do not.
is_available_positive(code) == code > 0

\* The availability codes after which a screenshot is attempted.
is_available(code) == code = 200 \/ code = 302

\* The command string built for the method ('' when no branch assigns it).
build_command(method) ==
    IF method = 0 THEN "google-chrome"
    ELSE IF method = 2 THEN "cutycapt"
    ELSE ""

\* What os.system(command) can do: the shell's exit status, or an exception.
\* The empty command is run by the shell as well and exits 0.
SystemOutcomes(command) ==
    IF command = "" THEN {[at |-> "os.system", exc |-> "none", exit |-> 0]}
    ELSE {[at |-> "os.system", exc |-> "none", exit |-> 0],
          [at |-> "os.system", exc |-> "none", exit |-> 1],
          [at |-> "os.system", exc |-> "none", exit |-> 124],
          [at |-> "os.system", exc |-> "ValueError", exit |-> 0]}

\* Variant: a non-zero exit status is returned as it is.
run_command_raw_exit(o) ==
    IF o.exc # "none" THEN [raised |-> FALSE, val |-> str(PyInt(-6))]
    ELSE IF o.exit = 0 THEN [raised |-> FALSE, val |-> str(PyInt(200))]
    ELSE [raised |-> FALSE, val |-> str(PyInt(o.exit))]

\* The try/except around os.system and the str(succeed) that is returned.
run_command(o) ==
    IF o.exc # "none"
    THEN (IF FirstHandler(<<"BaseException">>, o.exc) = "BaseException"
          THEN Return(str(PyInt(-6))) ELSE Propagate)
    ELSE IF o.exit = 0 THEN Return(str(PyInt(200)))
    ELSE Return(str(PyInt(-5)))

\* The awaits of puppeteer_screenshot, in order (lines 208-213).
PuppeteerAwaits == <<"launch", "newPage", "setViewport", "goto", "screenshot", "browser.close">>

\* The exceptions a call of the browser library can raise.
PuppeteerErrors == {"TimeoutError", "NetworkError", "PageError", "BrowserError"}

\* Whether the call of `stage` is made: the arguments of page.goto hold
\* int(timeout_duration), which raises ValueError before the call when the
\* timeout is no integer literal.
call_made(stage, timeout_int) == ~(stage = "goto" /\ ~timeout_int)

\* How the await of `stage` can end: "none" when it returns, or an exception.
await_results(stage, timeout_int) ==
    IF call_made(stage, timeout_int) THEN {"none"} \cup PuppeteerErrors
    ELSE {"ValueError"}

\* What puppeteer_screenshot can do: finish, or raise at one of its awaits.
PuppeteerOutcomes ==
    {[at |-> "none", exc |-> "none", exit |-> 0]}
    \cup {[at |-> PuppeteerAwaits[a], exc |-> e, exit |-> 0] :
            a \in DOMAIN PuppeteerAwaits, e \in PuppeteerErrors}
    \cup {[at |-> "goto", exc |-> "ValueError", exit |-> 0]}

\* The await that follows `stage`; "none" after browser.close().
next_await(stage) ==
    LET a == CHOOSE b \in DOMAIN PuppeteerAwaits : PuppeteerAwaits[b] = stage
    IN  IF a = Len(PuppeteerAwaits) THEN "none" ELSE PuppeteerAwaits[a + 1]

\* The program position at which `stage` is awaited: launch() is the first
\* thing the method-1 branch does.
AwaitPc(stage) == IF stage = "launch" THEN "dispatch" ELSE stage

\* Whether the record's browser is open after `stage` ended with e (was_open:
\* whether it was open before). A browser.close() that raised leaves it open
\* or closed: still_open is either.
browser_open_after(stage, e, was_open, still_open) ==
    IF stage = "launch" THEN e = "none"
    ELSE IF stage = "browser.close" THEN (e # "none" /\ still_open)
    ELSE was_open

\* Variant: the catch-all clause comes first.
puppeteer_handlers_catch_all_first == <<"Exception", "TimeoutError", "NetworkError", "PageError">>

\* The except clauses around run_until_complete, in order.
puppeteer_handlers == <<"TimeoutError", "NetworkError", "PageError", "Exception">>

run_puppeteer(o) ==
    IF o.exc = "none" THEN Return(PyInt(200))
    ELSE LET h == FirstHandler(puppeteer_handlers, o.exc)
         IN  IF h = "TimeoutError" THEN Return(PyInt(-1))
             ELSE IF h = "NetworkError" THEN Return(PyInt(-2))
             ELSE IF h = "PageError" THEN Return(PyInt(-3))
             ELSE IF h = "Exception" THEN Return(PyInt(-4))
             ELSE Propagate

----------------------------------------------------------------------------
\* parse_args

\* The five checks that end in exit().
parse_args_exits(a) ==
    \/ a.csv /\ ~a.indexcsv
    \/ ~a.csv /\ ~a.db
    \/ a.csv /\ a.db
    \/ ~a.picsout
    \/ ~a.has_method

\* The locals the return statement reads and the branches that bind them.
csv_in_name_bound(a) == a.csv
csv_out_name_bound(a) == a.indexcsv
parse_args_returns(a) == csv_in_name_bound(a) /\ csv_out_name_bound(a)

----------------------------------------------------------------------------
\* Input and output rows

Header == <<"archive_id", "url_id", "succeed_code", "current_url">>

\* Variant: the two identifiers are written in the wrong columns.
csv_row_swapped(archive_id, url_id, status, url) ==
    <<str(url_id).v, str(archive_id).v, str(status).v, url>>

\* writerow: every cell is written as str() of the value.
csv_row(archive_id, url_id, status, url) ==
    <<str(archive_id).v, str(url_id).v, str(status).v, url>>

\* The insert statement formats the values into SQL text; the int columns
\* store the integers the text denotes.
index_row(archive_id, url_id, status) ==
    <<Num(str(archive_id)), Num(str(url_id)), Num(str(status))>>

\* The (archive_id, url_id, url) triples an input row can hold.
Triples == {<<1, 1, "http://a/">>, <<1, 2, "http://b/">>}

SeqsUpTo(S, n) == UNION {[1 .. k -> S] : k \in 0 .. n}

\* A line of the input CSV: csv.reader yields strings.
CsvLine(tr) == [archive_id |-> PyStr(ToString(tr[1])), url_id |-> PyStr(ToString(tr[2])), url |-> tr[3]]
CsvHeaderLine == [archive_id |-> PyStr("archive_id"), url_id |-> PyStr("url_id"), url |-> "url"]
\* A row of current_url: ints and a string.
DbRow(tr) == [archive_id |-> PyInt(tr[1]), url_id |-> PyInt(tr[2]), url |-> tr[3]]

CsvFiles == {<<>>} \cup
    {<<CsvHeaderLine>> \o [k \in DOMAIN s |-> CsvLine(s[k])] : s \in SeqsUpTo(Triples, MaxRecords)}
UrlTables == {[k \in DOMAIN s |-> DbRow(s[k])] : s \in SeqsUpTo(Triples, MaxRecords)}
PriorIndexes == SeqsUpTo({<<1, 1, 200>>, <<7, 7, 404>>}, MaxPrior)

ArgSets ==
    {a \in [csv : BOOLEAN, db : BOOLEAN, indexcsv : BOOLEAN, picsout : BOOLEAN,
            has_method : BOOLEAN, method : 0 .. MaxMethod, timeout_int : BOOLEAN] :
        ~a.has_method => (a.method = 0 /\ a.timeout_int)}

----------------------------------------------------------------------------
\* The program

NoResp == [exc |-> "none", code |-> 0, geturl |-> ""]
NoOutcome == [at |-> "", exc |-> "none", exit |-> 0]

\* The record the loop is at.
Cur == input[line]

Call(op, arg) == [op |-> op, at |-> line, arg |-> arg]

Init ==
    /\ args \in ArgSets
    /\ pc = "start"
    /\ mode = "none"
    /\ input \in (IF args.csv THEN CsvFiles ELSE IF args.db THEN UrlTables ELSE {<<>>})
    /\ current_index \in (IF args.db THEN PriorIndexes ELSE {<<>>})
    /\ line = 0
    /\ count = 0
    /\ return_code = 0
    /\ succeed = Nil
    /\ resp = NoResp
    /\ outcome = NoOutcome
    /\ csv_out = <<>>
    /\ csv_buf = <<>>
    /\ browsers = {}
    /\ calls = <<>>

\* parse_args: exit() on a configuration error; otherwise connect_sql for
\* --db, then the return statement, which reads csv_in_name and csv_out_name.
ParseArgs ==
    /\ pc = "start"
    /\ pc' = IF parse_args_exits(args) THEN "exited"
             ELSE IF parse_args_returns(args) THEN "main"
             ELSE "crashed"
    /\ calls' = IF ~parse_args_exits(args) /\ args.db
                THEN Append(calls, Call("connect_sql", ""))
                ELSE calls
    /\ UNCHANGED <<args, mode, input, line, count, return_code, succeed, resp,
                   outcome, csv_out, csv_buf, current_index, browsers>>

\* main: if use_csv, screenshot_csv up to its for loop (both files opened,
\* the header row written).
ScreenshotCsv ==
    /\ pc = "main"
    /\ args.csv
    /\ mode' = "csv"
    /\ csv_out' = <<>>
    /\ csv_buf' = <<Header>>
    /\ count' = 0
    /\ line' = 0
    /\ pc' = "loop"
    /\ UNCHANGED <<args, input, return_code, succeed, resp, outcome,
                   current_index, browsers, calls>>

\* main: if use_db, screenshot_db up to its for loop (table created if
\* absent and emptied, current_url fetched, the CSV opened when make_csv).
ScreenshotDb ==
    /\ pc = "main"
    /\ args.db
    /\ mode' = "db"
    /\ current_index' = <<>>
    /\ csv_out' = <<>>
    /\ csv_buf' = IF args.indexcsv THEN <<Header>> ELSE <<>>
    /\ count' = 0
    /\ line' = 0
    /\ pc' = "loop"
    /\ UNCHANGED <<args, input, return_code, succeed, resp, outcome,
                   browsers, calls>>

\* screenshot_csv: the first line is skipped (count == 0).
SkipHeader ==
    /\ pc = "loop"
    /\ mode = "csv"
    /\ line < Len(input)
    /\ count = 0
    /\ count' = 1
    /\ line' = line + 1
    /\ UNCHANGED <<args, pc, mode, input, return_code, succeed, resp, outcome,
                   csv_out, csv_buf, current_index, browsers, calls>>

\* The for loop takes the next record and calls take_screenshot, whose
\* locals start afresh.
NextRecord ==
    /\ pc = "loop"
    /\ line < Len(input)
    /\ mode = "csv" => count # 0
    /\ line' = line + 1
    /\ count' = IF mode = "db" THEN count + 1 ELSE count
    /\ pc' = "probe"
    /\ return_code' = 0
    /\ resp' = NoResp
    /\ outcome' = NoOutcome
    /\ calls' = <<>>
    /\ UNCHANGED <<args, mode, input, succeed, csv_out, csv_buf, current_index, browsers>>

\* The for loop is exhausted: files and connection are closed, main returns.
\* The index CSV is opened with the default (block) buffering and never
\* flushed, so the rows written reach the file when it is closed: at the end
\* of the with block (screenshot_csv) or by csv_file_out.close()
\* (screenshot_db). A buffer that fills would be written out earlier; the
\* rows of a bounded run do not fill it.
Finish ==
    /\ pc = "loop"
    /\ line = Len(input)
    /\ pc' = "done"
    /\ csv_out' = csv_out \o csv_buf
    /\ csv_buf' = <<>>
    /\ UNCHANGED <<args, mode, input, line, count, return_code, succeed, resp,
                   outcome, current_index, browsers, calls>>

\* take_screenshot, lines 133-135: the availability probe and the early return.
Probe ==
    /\ pc = "probe"
    /\ \E r \in Responses(Cur.url) :
         LET res == check_site_availability(Cur.url, r) IN
         /\ resp' = r
         /\ calls' = Append(calls, Call("urlopen", Cur.url))
         /\ IF res.raised
            THEN pc' = "crashed" /\ UNCHANGED <<return_code, succeed>>
            ELSE /\ return_code' = res.val
                 /\ IF is_available(res.val)
                    THEN pc' = "dispatch" /\ UNCHANGED succeed
                    ELSE pc' = "write" /\ succeed' = PyInt(res.val)
    /\ UNCHANGED <<args, mode, input, line, count, outcome, csv_out, csv_buf,
                   current_index, browsers>>

\* take_screenshot, lines 137-146 and 168-183: every method but 1 falls through
\* to os.system(command).
DispatchCommand ==
    /\ pc = "dispatch"
    /\ args.method # 1
    /\ LET command == build_command(args.method) IN
       \E o \in SystemOutcomes(command) :
         LET res == run_command(o) IN
         /\ outcome' = o
         /\ calls' = Append(calls, Call("os.system", command))
         /\ IF res.raised
            THEN pc' = "crashed" /\ UNCHANGED succeed
            ELSE pc' = "write" /\ succeed' = res.val
    /\ UNCHANGED <<args, mode, input, line, count, return_code, resp, csv_out, csv_buf,
                   current_index, browsers>>

\* take_screenshot, lines 147-167, with puppeteer_screenshot: one await of
\* the coroutine. It returns (the next await follows, or after browser.close()
\* take_screenshot returns 200) or raises (the except clauses give the status
\* and the remaining awaits, browser.close() among them, are skipped). Between
\* two awaits the event loop may run other tasks; the program schedules none,
\* and those of a browser left open touch none of the program's variables.
PuppeteerAwait(stage) ==
    /\ pc = AwaitPc(stage)
    /\ args.method = 1
    /\ \E e \in await_results(stage, args.timeout_int), still_open \in BOOLEAN :
         LET o == [at |-> IF e = "none" THEN "none" ELSE stage, exc |-> e, exit |-> 0]
             res == run_puppeteer(o)
             nxt == next_await(stage)
         IN
         /\ (stage # "browser.close" \/ e = "none") => still_open
         /\ calls' = IF call_made(stage, args.timeout_int)
                     THEN Append(calls, Call(stage, IF stage \in {"launch", "goto"} THEN Cur.url ELSE ""))
                     ELSE calls
         /\ browsers' = IF browser_open_after(stage, e, line \in browsers, still_open)
                        THEN browsers \cup {line} ELSE browsers \ {line}
         /\ IF e = "none" /\ nxt # "none"
            THEN pc' = AwaitPc(nxt) /\ UNCHANGED <<succeed, outcome>>
            ELSE /\ outcome' = o
                 /\ IF res.raised
                    THEN pc' = "crashed" /\ UNCHANGED succeed
                    ELSE pc' = "write" /\ succeed' = res.val
    /\ UNCHANGED <<args, mode, input, line, count, return_code, resp, csv_out, csv_buf,
                   current_index>>

PuppeteerLaunch == PuppeteerAwait("launch")
PuppeteerNewPage == PuppeteerAwait("newPage")
PuppeteerSetViewport == PuppeteerAwait("setViewport")
PuppeteerGoto == PuppeteerAwait("goto")
PuppeteerScreenshot == PuppeteerAwait("screenshot")
PuppeteerClose == PuppeteerAwait("browser.close")

\* screenshot_csv, line 53: the result row is written.
WriteRow ==
    /\ pc = "write"
    /\ mode = "csv"
    /\ csv_buf' = Append(csv_buf, csv_row(Cur.archive_id, Cur.url_id, succeed, Cur.url))
    /\ UNCHANGED csv_out
    /\ pc' = "loop"
    /\ UNCHANGED <<args, mode, input, line, count, return_code, succeed, resp,
                   outcome, current_index, browsers, calls>>

\* screenshot_db, lines 98-102: the row is inserted, and written when make_csv.
InsertRow ==
    /\ pc = "write"
    /\ mode = "db"
    /\ current_index' = Append(current_index, index_row(Cur.archive_id, Cur.url_id, succeed))
    /\ csv_buf' = IF args.indexcsv
                  THEN Append(csv_buf, csv_row(Cur.archive_id, Cur.url_id, succeed, Cur.url))
                  ELSE csv_buf
    /\ UNCHANGED csv_out
    /\ pc' = "loop"
    /\ UNCHANGED <<args, mode, input, line, count, return_code, succeed, resp,
                   outcome, browsers, calls>>

\* The program as run from the command line. parse_args never returns for
\* --db (see parse_args_returns), so screenshot_db is not among its steps.
Next ==
    \/ ParseArgs
    \/ ScreenshotCsv
    \/ SkipHeader
    \/ NextRecord
    \/ Finish
    \/ Probe
    \/ DispatchCommand
    \/ PuppeteerLaunch
    \/ PuppeteerNewPage
    \/ PuppeteerSetViewport
    \/ PuppeteerGoto
    \/ PuppeteerScreenshot
    \/ PuppeteerClose
    \/ WriteRow

Spec == Init /\ [][Next]_vars

\* The steps that wait on nothing outside the program: the interpreter takes
\* them when they are enabled. The external calls are not among them:
\* urlopen has no timeout (line 238), os.system waits for its child, whose
\* `timeout` sends a signal the child may ignore (lines 140-146, 172), and the
\* browser awaits wait for the browser.
ProgramStep ==
    \/ ParseArgs
    \/ ScreenshotCsv
    \/ SkipHeader
    \/ NextRecord
    \/ Finish
    \/ WriteRow

FairSpec == Spec /\ WF_vars(ProgramStep)

\* screenshot_db called directly, as main would call it had parse_args
\* returned for --db: the connection is open, current_index holds old rows.
InitDb ==
    /\ args \in {a \in ArgSets : a.db /\ ~parse_args_exits(a)}
    /\ pc = "main"
    /\ mode = "none"
    /\ input \in UrlTables
    /\ current_index \in PriorIndexes
    /\ line = 0
    /\ count = 0
    /\ return_code = 0
    /\ succeed = Nil
    /\ resp = NoResp
    /\ outcome = NoOutcome
    /\ csv_out = <<>>
    /\ csv_buf = <<>>
    /\ browsers = {}
    /\ calls = <<>>

NextDb ==
    \/ ScreenshotDb
    \/ NextRecord
    \/ Finish
    \/ Probe
    \/ DispatchCommand
    \/ PuppeteerLaunch
    \/ PuppeteerNewPage
    \/ PuppeteerSetViewport
    \/ PuppeteerGoto
    \/ PuppeteerScreenshot
    \/ PuppeteerClose
    \/ InsertRow

SpecDb == InitDb /\ [][NextDb]_vars

----------------------------------------------------------------------------
\* Vocabulary of the properties

Count(op, k) == Cardinality({j \in DOMAIN calls : calls[j].op = op /\ calls[j].at = k})
Probes(k) == Count("urlopen", k)
Attempts(k) == Count("os.system", k) + Count("launch", k)

\* The status as it is persisted: its decimal text.
StatusText(x) == str(x).v
Texts(S) == {ToString(n) : n \in S}

\* take_screenshot has returned for the record at `line`.
Returned == Probes(line) > 0 /\ pc \in {"write", "loop", "done"}

Last(q) == q[Len(q)]

\* The rows written to the index CSV so far: those the file holds, then
\* those still in its buffer.
Written == csv_out \o csv_buf

\* Positions inside the browser-automation coroutine, after launch().
InBrowser == {"newPage", "setViewport", "goto", "screenshot", "browser.close"}

\* Positions at which the program is inside an external call.
InCall == {"probe", "dispatch"} \cup InBrowser

\* Positions inside the processing of the record at `line`.
InRecord == InCall \cup {"write"}

\* Records whose loop iteration is complete (CSV input: the header is line 1).
Completed ==
    IF pc \in InRecord THEN line - 2
    ELSE IF line = 0 THEN 0 ELSE line - 1

\* Position of record k of a CSV input among its lines.
RecordLine(k) == k + 1

\* The configuration errors: no input source, both sources, --csv without
\* --indexcsv, no --picsout, no --method.
ConfigError ==
    \/ ~args.csv /\ ~args.db
    \/ args.csv /\ args.db
    \/ args.csv /\ ~args.indexcsv
    \/ ~args.picsout
    \/ ~args.has_method

\* The per-URL state machine PENDING -> AVAILABLE -> TERMINAL, as a rank.
PhaseRank(k) ==
    IF k > line THEN 0
    ELSE IF k < line THEN 2
    ELSE IF pc = "probe" THEN 0
    ELSE IF pc \in {"dispatch"} \cup InBrowser THEN 1
    ELSE 2

\* The status table of the back-ends, by method and back-end outcome.
TableStatus(m, o) ==
    IF m = 1
    THEN (CASE o.exc = "none"         -> 200
            [] o.exc = "TimeoutError" -> -1
            [] o.exc = "NetworkError" -> -2
            [] o.exc = "PageError"    -> -3
            [] OTHER                  -> -4)
    ELSE (IF o.exc # "none" THEN -6 ELSE IF o.exit = 0 THEN 200 ELSE -5)

----------------------------------------------------------------------------
\* C1: when the availability check gives a code other than 200 and 302,
\* take_screenshot calls no back-end (no os.system, no browser launch) and
\* returns that code, and that code is the status written to the row.
C1_Unavailable_ShortCircuits ==
    (Returned /\ return_code # 200 /\ return_code # 302) =>
        /\ Attempts(line) = 0
        /\ succeed = PyInt(return_code)
        /\ (pc # "write" /\ Written # <<>>) => Last(Written)[3] = ToString(return_code)

C1_Witness ==
    /\ pc = "loop"
    /\ Returned
    /\ return_code = -7
    /\ Written # <<>>
    /\ Last(Written)[3] = "-7"
    /\ Attempts(line) = 0

\* C2: a URL whose availability is 200, under method 0, 1 or 2, is probed
\* exactly once and gets exactly one screenshot attempt; its final status is
\* 200 or a code of the method's back-end; the record at hand is never probed
\* or attempted twice, and a record's state never moves backwards.
C2_Counts ==
    /\ Probes(line) <= 1 /\ Attempts(line) <= 1
    /\ (Probes(line) > 0 /\ return_code = 200 /\ args.method \in {0, 1, 2}) =>
          /\ Probes(line) = 1
          /\ pc = "dispatch" => Attempts(line) = 0
          /\ pc # "dispatch" => Attempts(line) = 1
          /\ Returned =>
                StatusText(succeed) \in
                      (IF args.method = 1 THEN Texts({200, -1, -2, -3, -4})
                       ELSE Texts({200, -5, -6}))

C2_Forward == \A k \in 1 .. Len(input) : PhaseRank(k)' >= PhaseRank(k)

C2_OneProbe_OneAttempt == [](C2_Counts) /\ [][C2_Forward]_vars

C2_Witness ==
    /\ pc = "done"
    /\ Len(input) = 3
    /\ return_code = 200
    /\ args.method = 0
    /\ StatusText(succeed) = "-5"
    /\ Probes(line) = 1
    /\ Attempts(line) = 1

\* C3 (as claimed): at every point of a run the index CSV file holds the
\* header row and then one row per completed record, in input order, whose
\* archive_id, url_id and url are those of the input record at the same
\* position.
C3_Csv_Mirrors_Input ==
    (mode = "csv") =>
        /\ Len(csv_out) = 1 + Completed
        /\ csv_out[1] = Header
        /\ \A k \in 1 .. Completed :
              /\ csv_out[k + 1][1] = input[RecordLine(k)].archive_id.v
              /\ csv_out[k + 1][2] = input[RecordLine(k)].url_id.v
              /\ csv_out[k + 1][3] \in Texts(StatusCodes)
              /\ csv_out[k + 1][4] = input[RecordLine(k)].url

\* C3: at every point of a run the rows written to the index CSV so far (in
\* the file or still in its buffer) are the header row and then one row per
\* completed record, in input order, whose archive_id, url_id and url are
\* those of the input record at the same position; when the run has ended
\* the buffer is empty and the file holds all of them.
C3_Written_Mirrors_Input ==
    (mode = "csv") =>
        /\ Len(Written) = 1 + Completed
        /\ Written[1] = Header
        /\ \A k \in 1 .. Completed :
              /\ Written[k + 1][1] = input[RecordLine(k)].archive_id.v
              /\ Written[k + 1][2] = input[RecordLine(k)].url_id.v
              /\ Written[k + 1][3] \in Texts(StatusCodes)
              /\ Written[k + 1][4] = input[RecordLine(k)].url
        /\ pc = "done" => (csv_buf = <<>> /\ line = Len(input))

C3_Witness ==
    /\ pc = "done"
    /\ Len(input) = 3
    /\ csv_buf = <<>>
    /\ Len(csv_out) = 3
    /\ csv_out[2][2] = "2"
    /\ csv_out[3][2] = "1"

\* C4 (as claimed): once the loop is entered, the run reaches its end with
\* every input record processed and written.
C4_Run_Completes ==
    (mode = "csv") ~>
        (pc = "done" /\ line = Len(input) /\ Len(csv_out) = 1 + Completed
           /\ Completed = (IF Len(input) = 0 THEN 0 ELSE Len(input) - 1))

\* C4 (amended): once the loop is entered, either the run stays for ever
\* inside an external call that does not return, or it reaches its end with
\* every input record processed and written; whatever a call that returns
\* gave, the run does not end early.
C4_Completes_Unless_Call_Hangs ==
    \/ <>[](pc \in InCall)
    \/ (mode = "csv") ~>
          (pc = "done" /\ line = Len(input) /\ Len(csv_out) = 1 + Completed
             /\ Completed = (IF Len(input) = 0 THEN 0 ELSE Len(input) - 1))

C4_Witness ==
    /\ pc = "done"
    /\ Len(csv_out) = 3
    /\ csv_out[2][3] = "-8"
    /\ csv_out[3][3] = "-4"

\* C5 (as claimed): a run ends fatally only on a configuration error, before
\* any URL is probed; every other configuration reaches the processing loop.
C5_Only_Config_Errors_Fatal ==
    pc \in {"exited", "crashed"} => (ConfigError /\ line = 0)

\* C6 (as claimed): when a database-mode run has ended, current_index holds
\* exactly one row per row of current_url and nothing else.
C6_Index_Replaced ==
    (args.db /\ ~ConfigError /\ pc \in {"done", "crashed"}) =>
        /\ Len(current_index) = Len(input)
        /\ \A k \in 1 .. Len(input) :
              /\ current_index[k][1] = input[k].archive_id.v
              /\ current_index[k][2] = input[k].url_id.v

\* C7 (as claimed): while a URL is being processed, no browser launched for
\* another URL is still open.
C7_Browser_Closed_Before_Next ==
    pc \in InRecord => \A k \in browsers : k = line

\* C8 (as claimed): for an available URL and a method outside {0, 1, 2},
\* take_screenshot runs no external command and returns the availability code.
C8_Unknown_Method_NoOp ==
    (Returned /\ pc = "write" /\ return_code \in {200, 302} /\ args.method \notin {0, 1, 2}) =>
        /\ Attempts(line) = 0
        /\ StatusText(succeed) = ToString(return_code)

\* C9 (as claimed): for an available URL under method 0, 1 or 2 the returned
\* status is the table's entry for the method and the back-end outcome, and
\* it is an integer.
C9_Table_Integer ==
    (Returned /\ pc = "write" /\ return_code \in {200, 302} /\ args.method \in {0, 1, 2}) =>
        /\ succeed.t = "int"
        /\ succeed.v = TableStatus(args.method, outcome)

\* C9 (amended): the returned status denotes the table's entry; it is an int
\* under method 1 and the decimal string of the entry under methods 0 and 2.
C9_Table_Int_Or_Text ==
    (Returned /\ pc = "write" /\ return_code \in {200, 302} /\ args.method \in {0, 1, 2}) =>
        /\ StatusText(succeed) = ToString(TableStatus(args.method, outcome))
        /\ succeed.t = (IF args.method = 1 THEN "int" ELSE "str")

C9_Witness ==
    /\ pc = "write"
    /\ return_code = 302
    /\ args.method = 2
    /\ outcome.exit = 124
    /\ succeed = PyStr("-5")

\* C10: the availability code is the HTTP error's status for an HTTP error,
\* -7 for any other URL error, -8 for any other exception, 302 when the final
\* URL differs from the requested one, and 200 only when it is the same.
C10_Availability_Classes ==
    (Probes(line) > 0 /\ pc \in InRecord) =>
        /\ return_code =
              (CASE resp.exc = "HTTPError" -> resp.code
                 [] resp.exc = "URLError"  -> -7
                 [] resp.exc = "none"      -> (IF resp.geturl # Cur.url THEN 302 ELSE 200)
                 [] OTHER                  -> -8)
        /\ return_code = 200 => (resp.exc = "none" /\ resp.geturl = Cur.url)

C10_Witness ==
    /\ pc = "write"
    /\ resp.exc = "HTTPError"
    /\ resp.code = 404
    /\ return_code = 404

----------------------------------------------------------------------------
\* screenshot_db on its own (SpecDb): at its end current_index holds one row
\* per row of current_url, in order, and none of the old rows.
Db_Index_Replaced ==
    pc = "done" =>
        /\ Len(current_index) = Len(input)
        /\ \A k \in 1 .. Len(input) :
              /\ current_index[k][1] = input[k].archive_id.v
              /\ current_index[k][2] = input[k].url_id.v
              /\ current_index[k][3] \in StatusCodes

====
